---- MODULE Spec2Model ----
(***************************************************************************)
(* Remote-file ingestion engine of the Tower of Temptation statistics bot: *)
(* the kill-feed monitor (cogs/killfeed.py), the events monitor            *)
(* (temp_extract/NewBeta-main/cogs/events.py), the task registry           *)
(* (bot.background_tasks), the session map (bot.sftp_connections), the     *)
(* log processor (cogs/log_processor.py) and the parser coordinator        *)
(* (utils/parser_utils.py), for one guild and one game server.             *)
(***************************************************************************)
EXTENDS Integers, Sequences, FiniteSets, TLC

(* ---------------------------- bounds ---------------------------------- *)
\* task objects ever created by start commands in the shared scenario
MaxStarts == 2
\* lines the remote files ever hold
MaxLines == 2
\* injected I/O faults in the shared scenario
MaxFaults == 1
\* cap of the consecutive-error counter in the flaky single-monitor scenario
MaxErrors == 15
\* entries of each server list of a guild document in the validation runs
MaxEntries == 1

(* ----------------------- program constants ---------------------------- *)
max_consecutive_errors == 5
max_reconnect_attempts == 10
BaseBackoff == 5
BackoffCeiling == 60

Kinds == {"killfeed", "events"}
Tasks == 1..MaxStarts
NoTask == 0
Events == {"k1", "k2"}
Commands == 1..2
LogRuns == {0} \cup Commands   \* 0 is the background task's execution

\* the guilds whose administrators use the killfeed commands
Guilds == {1, 12}
\* str(guild_id)
str(guild) == IF guild = 1 THEN "1" ELSE "12"
\* server ids, each as the list of its parts between underscores:
\* "1001", "test" and "test_server"
CommandServerIds == { << "1001" >>, << "test" >>, << "test", "server" >> }
\* the "servers" list of the guild's document
GuildServers(guild) ==
  IF guild = 1 THEN { << "1001" >>, << "test", "server" >> } ELSE { << "1001" >> }
\* no command has been answered
NoReply == [command |-> "none", guild |-> 0, server_id |-> << >>, outcome |-> "none",
            running_monitors |-> << >>]
Junk == "junk"

\* Line i of a remote file: a kill record, an unparseable line, a kill record.
LineAt(i) == IF i % 3 = 1 THEN "k1" ELSE IF i % 3 = 2 THEN Junk ELSE "k2"

VARIABLES
  background_tasks,   \* bot.background_tasks: kind -> task or NoTask
  sftp_connections,   \* bot.sftp_connections["<guild>_<server>"]: session or NoTask
  connected,          \* SFTPClient.connected of the session created by task t
  starting,           \* start handlers between their check and create_task
  nTasks,             \* task objects created so far
  kind,               \* which monitor coroutine task t runs
  pc,                 \* position of task t
  must_cancel,        \* task.cancel() called, CancelledError not yet raised
  sftp_client,        \* local sftp_client of task t (a session) or NoTask
  client,             \* local client of the finally block (the popped session)
  srv_last_line,      \* server.last_csv_line / last_log_line of t's Server object
  last_line,          \* local last_line
  total_lines,        \* local total_lines
  new_lines,          \* len(new_lines)
  idx,                \* events of the batch already handed to process_*_event
  processed_events,   \* local processed_events
  consecutive_errors,
  reconnect_attempts,
  backoff_time,
  db_last_line,       \* persisted cursor per kind
  fileLen,            \* line count of the game server's current CSV and log files
  delivered,          \* records in the sinks: pipeline -> event -> count
  serverExists,       \* the server record is in the guild's server list
  dead,               \* the SFTP endpoint fails every probe, read and connect
  processed_event_hashes, \* ParserCoordinator.processed_event_hashes
  last_processed,     \* LogProcessorCog.last_processed of the server
  other_hashes,       \* fingerprints of older entries in processed_event_hashes
  last_admitted,      \* history: fingerprint admitted by the latest is_duplicate_event
  hashed,             \* history: the events fingerprinted so far
  startsLeft,         \* start commands the operator will still issue
  faultsLeft,         \* I/O faults the endpoint will still produce
  flaky,              \* single-monitor scenario with an unreliable endpoint
  linesCap,           \* lines the game server will write at most per file
  logCog,             \* the log processor cog is loaded
  removable,          \* an administrator may remove the server record
  restorable,         \* an administrator may add the removed server again
  last_start,         \* history: key and outcome of the latest start command
  mortal,             \* scenario: the SFTP endpoint may go away for good
  manual,             \* scenario: administrators use the process_logs command
  named_tasks,        \* bot.background_tasks of a bot with several guilds: task name -> task
  monitor_tasks,      \* the tasks created by Killfeed.start, in the order of their creation
  open_sessions,      \* keys of bot.sftp_connections of that bot
  reply,              \* the answer to the latest killfeed command
  is_processing,      \* LogProcessorCog.is_processing
  processing_lock,    \* LogProcessorCog.processing_lock is held
  log_task,           \* process_logs_task: "idle", or "running" _process_server_logs
  commands,           \* process_logs_command invocations: "idle", "waiting", "running"
  last_time,          \* _process_server_logs: last_time of each execution
  channel_configured, \* the server has a kill-feed channel that can be fetched
  channel_messages,   \* messages posted in the kill-feed channel so far
  raw_event,          \* a parsed log entry handed to normalize_event_data
  normalized_event,   \* what normalize_event_data returned for it
  category,           \* what categorize_event returned for the normalized event
  guilds_db,          \* db.guilds as the server utilities see it: the guild documents
  lookup,             \* the latest call of a server utility and what it returned
  backlog,            \* the log processor also has older logs and a second server
  cancelled,          \* history: stop cancelled t before it had finished
  iter,               \* history of t's current poll iteration
  owner_notified      \* outcome of the guild owner notice of t's self-stop

cfgVars  == << flaky, linesCap, logCog, removable, restorable, backlog,
              channel_configured, mortal, manual >>
regVars  == << background_tasks, starting, nTasks, kind, startsLeft, last_start >>
sessVars == << sftp_connections, connected, sftp_client, client >>
loopVars == << last_line, total_lines, new_lines, idx, processed_events >>
errVars  == << consecutive_errors, reconnect_attempts, backoff_time >>
envVars  == << fileLen, serverExists, dead >>
cmdVars  == << named_tasks, monitor_tasks, open_sessions, reply >>
procVars == << is_processing, processing_lock, log_task, commands, last_time >>
utilVars == << raw_event, normalized_event, category, guilds_db, lookup >>
logVars  == << processed_event_hashes, last_processed, other_hashes, last_admitted,
              hashed >>

vars == << background_tasks, sftp_connections, connected, starting, nTasks, kind,
           pc, must_cancel, sftp_client, client, srv_last_line, last_line,
           total_lines, new_lines, idx, processed_events, consecutive_errors,
           reconnect_attempts, backoff_time, db_last_line, fileLen, delivered,
           serverExists, dead, processed_event_hashes, last_processed, other_hashes,
           last_admitted, hashed, startsLeft,
           faultsLeft, cfgVars, utilVars, procVars, cmdVars, channel_messages, last_start, owner_notified, cancelled, iter >>

Pipelines == {"killfeed", "events", "logproc"}
NoValue == -1
NoHash == << >>
FreshIter == [failed |-> FALSE, advanced |-> FALSE, error |-> "none"]

(* ------------------------------ helpers ------------------------------- *)
\* asyncio.Task.done()
Done(t) == pc[t] = "done"
Live(t) == pc[t] \notin {"none", "done"}

\* faulty variant: CancelledError treated as an ordinary Exception
ExceptExceptionCatchesAll(exc) == TRUE

\* `except Exception` does not catch asyncio.CancelledError (a BaseException).
ExceptExceptionCatches(exc) == exc # "CancelledError"

\* faulty variant: strict comparison
NoNewLinesStrict(total, last) == total < last

\* killfeed.py:590 / events.py:1327: nothing to read
NoNewLines(total, last) == total <= last

\* faulty variant: the cursor advanced by the parsed events instead of the lines read
NewCursorByEvents(last, n, nEvents) == last + nEvents

\* killfeed.py:642 / events.py:1407: the value written to the cursor
NewCursor(last, n, nEvents) == last + n

\* faulty variant: the cursor is written only after a processed event
ShouldAdvanceIfProcessed(processed, nEvents) == processed > 0

\* killfeed.py:641: condition under which the cursor is written
ShouldAdvance(processed, nEvents) == processed > 0 \/ nEvents = 0

\* faulty variant: doubling without the ceiling
NextBackoffUncapped(b) == b * 2

\* killfeed.py:667
NextBackoff(b) == IF b * 2 < BackoffCeiling THEN b * 2 ELSE BackoffCeiling

\* CSVParser.parse_kill_lines / LogParser.parse_log_lines: the events of
\* lines from+1 .. from+n, unparseable lines skipped
RECURSIVE ParseLines(_, _)
ParseLines(from, n) ==
  IF n <= 0 THEN << >>
  ELSE LET rest == ParseLines(from, n - 1)
           l == LineAt(from + n)
       IN IF l \in Events THEN Append(rest, l) ELSE rest

Batch(t) == ParseLines(last_line[t], new_lines[t])

\* consecutive_errors += 1; the values from MaxErrors on are past every
\* threshold the counter is compared with, and are counted as MaxErrors
CountError(errors) == IF errors < MaxErrors THEN errors + 1 ELSE errors

\* an I/O fault may be injected into a step of t; once the endpoint is dead
\* every step that talks to it can fail
CanFault(t) ==
  \/ dead
  \/ flaky /\ consecutive_errors[t] < MaxErrors
  \/ ~flaky /\ faultsLeft > 0
Faulted == faultsLeft' = IF flaky \/ dead THEN faultsLeft ELSE faultsLeft - 1
NoFault == faultsLeft' = faultsLeft

Usable(t) == sftp_client[t] # NoTask /\ connected[sftp_client[t]]

\* what the operator, the endpoint and the game server do in a run
Scenarios ==
  { [name |-> "operators", starts |-> MaxStarts, faults |-> 0, flaky |-> FALSE,
     lines |-> 0, logs |-> FALSE, removal |-> FALSE, restore |-> FALSE,
     backlog |-> FALSE, channel |-> FALSE, outage |-> FALSE, manual |-> FALSE],
    [name |-> "two monitors", starts |-> 2, faults |-> 0, flaky |-> FALSE,
     lines |-> 2, logs |-> FALSE, removal |-> FALSE, restore |-> FALSE,
     backlog |-> FALSE, channel |-> FALSE, outage |-> FALSE, manual |-> FALSE],
    [name |-> "both pipelines", starts |-> 1, faults |-> MaxFaults, flaky |-> FALSE,
     lines |-> MaxLines, logs |-> TRUE, removal |-> FALSE, restore |-> FALSE,
     backlog |-> FALSE, channel |-> FALSE, outage |-> FALSE, manual |-> FALSE],
    [name |-> "bad endpoint", starts |-> 1, faults |-> 0, flaky |-> TRUE,
     lines |-> 0, logs |-> FALSE, removal |-> TRUE, restore |-> TRUE,
     backlog |-> FALSE, channel |-> FALSE, outage |-> FALSE, manual |-> FALSE],
    [name |-> "restart", starts |-> 2, faults |-> 0, flaky |-> FALSE,
     lines |-> 0, logs |-> FALSE, removal |-> TRUE, restore |-> TRUE,
     backlog |-> FALSE, channel |-> FALSE, outage |-> FALSE, manual |-> FALSE],
    [name |-> "endpoint outage", starts |-> 1, faults |-> 0, flaky |-> FALSE,
     lines |-> 0, logs |-> FALSE, removal |-> FALSE, restore |-> FALSE,
     backlog |-> FALSE, channel |-> FALSE, outage |-> TRUE, manual |-> FALSE],
    [name |-> "manual log processing", starts |-> 0, faults |-> 0, flaky |-> FALSE,
     lines |-> 1, logs |-> FALSE, removal |-> FALSE, restore |-> FALSE,
     backlog |-> FALSE, channel |-> FALSE, outage |-> FALSE, manual |-> TRUE],
    [name |-> "long-running log processor", starts |-> 1, faults |-> 0, flaky |-> FALSE,
     lines |-> 1, logs |-> TRUE, removal |-> FALSE, restore |-> FALSE,
     backlog |-> TRUE, channel |-> TRUE, outage |-> FALSE, manual |-> FALSE] }

\* the bot after its construction, in the run described by sc
Start(sc) ==
  /\ background_tasks = [k \in Kinds |-> NoTask]
  /\ sftp_connections = NoTask
  /\ connected = [t \in Tasks |-> FALSE]
  /\ starting = [k \in Kinds |-> 0]
  /\ nTasks = 0
  /\ kind = [t \in Tasks |-> "none"]
  /\ pc = [t \in Tasks |-> "none"]
  /\ must_cancel = [t \in Tasks |-> FALSE]
  /\ sftp_client = [t \in Tasks |-> NoTask]
  /\ client = [t \in Tasks |-> NoTask]
  /\ srv_last_line = [t \in Tasks |-> 0]
  /\ last_line = [t \in Tasks |-> NoValue]
  /\ total_lines = [t \in Tasks |-> NoValue]
  /\ new_lines = [t \in Tasks |-> 0]
  /\ idx = [t \in Tasks |-> 0]
  /\ processed_events = [t \in Tasks |-> 0]
  /\ consecutive_errors = [t \in Tasks |-> 0]
  /\ reconnect_attempts = [t \in Tasks |-> 0]
  /\ backoff_time = [t \in Tasks |-> BaseBackoff]
  /\ db_last_line = [k \in Kinds |-> 0]
  /\ fileLen = 0
  /\ delivered = [p \in Pipelines |-> [e \in Events |-> 0]]
  /\ serverExists = TRUE
  /\ dead = FALSE
  /\ processed_event_hashes = {}
  /\ last_processed = 0
  /\ other_hashes = 0
  /\ last_admitted = NoHash
  /\ hashed = {}
  /\ startsLeft = sc.starts
  /\ faultsLeft = sc.faults
  /\ flaky = sc.flaky
  /\ linesCap = sc.lines
  /\ logCog = sc.logs
  /\ removable = sc.removal
  /\ backlog = sc.backlog
  /\ restorable = sc.restore
  /\ channel_configured = sc.channel
  /\ mortal = sc.outage
  /\ manual = sc.manual
  /\ named_tasks = << >>
  /\ monitor_tasks = << >>
  /\ open_sessions = {}
  /\ reply = NoReply
  /\ is_processing = FALSE
  /\ processing_lock = FALSE
  /\ log_task = "idle"
  /\ commands = [c \in Commands |-> "idle"]
  /\ last_time = [r \in LogRuns |-> 0]
  /\ channel_messages = 0
  /\ last_start = [key |-> "none", outcome |-> "none"]
  /\ cancelled = [t \in Tasks |-> FALSE]
  /\ iter = [t \in Tasks |-> FreshIter]
  /\ owner_notified = [t \in Tasks |-> "none"]

\* a missing key and a null value of an event dictionary
Absent == "<absent>"
None == "<None>"

\* no event has been handed to the parser utilities
NoEvent == [killer_id |-> Absent, victim_id |-> Absent, event_type |-> Absent,
            timestamp |-> Absent, distance |-> Absent]

\* no guild document, and no call of a server utility
NoDoc == [guild_id |-> <<"none", 0>>, data_servers |-> {}, servers |-> {},
          server_ids |-> {}]
NoLookup == [fn |-> "none", guild_id |-> <<"none", 0>>, server_id |-> "none",
             result |-> {}]

Init ==
  /\ \E sc \in Scenarios : Start(sc)
  /\ raw_event = NoEvent
  /\ normalized_event = NoEvent
  /\ category = "none"
  /\ guilds_db = << NoDoc, NoDoc >>
  /\ lookup = NoLookup

(* --------------------- shared pieces of the monitors ------------------ *)
Disconnect(c) == IF c = NoTask THEN connected ELSE [connected EXCEPT ![c] = FALSE]
SetConnected(c, b) == IF c = NoTask THEN connected ELSE [connected EXCEPT ![c] = b]

\* finally block: the kill-feed monitor pops whatever session is registered
\* under "<guild>_<server>"; the events monitor leaves the map alone
FinallyPop(t) ==
  IF kind[t] = "killfeed" /\ sftp_connections # NoTask
  THEN /\ client' = [client EXCEPT ![t] = sftp_connections]
       /\ sftp_connections' = NoTask
  ELSE UNCHANGED << client, sftp_connections >>

EnterFinally(t) ==
  /\ FinallyPop(t)
  /\ pc' = [pc EXCEPT ![t] = "closing"]

\* faulty variant: the budget is taken to be spent one attempt early
HasReconnectBudgetOffByOne(attempts) == attempts + 1 < max_reconnect_attempts

\* killfeed.py:658 / events.py:1423
HasReconnectBudget(attempts) == attempts < max_reconnect_attempts

\* faulty variant: a reconnection after every error
TooManyErrorsAny(errors) == errors >= 1

\* killfeed.py:657 / events.py:1422
TooManyErrors(errors) == errors >= max_consecutive_errors

\* `except Exception as e` of the polling loop
OuterHandler(t) ==
  LET ce == CountError(consecutive_errors[t]) IN
  /\ consecutive_errors' = [consecutive_errors EXCEPT ![t] = ce]
  /\ IF TooManyErrors(ce)
     THEN /\ IF HasReconnectBudget(reconnect_attempts[t])
             THEN /\ connected' = Disconnect(sftp_client[t])
                  /\ pc' = [pc EXCEPT ![t] = "backoff"]
             ELSE /\ pc' = [pc EXCEPT ![t] = "notify"]
                  /\ UNCHANGED connected
          /\ UNCHANGED << client, sftp_connections >>
     ELSE /\ pc' = [pc EXCEPT ![t] = "sleep"]
          /\ UNCHANGED << connected, client, sftp_connections >>

Runs(t, l) == pc[t] = l /\ ~must_cancel[t]

quiet == << regVars, envVars, logVars, must_cancel, cancelled, cfgVars >>

(* ------------------------- operator commands -------------------------- *)
\* faulty variant: no start is ever rejected
AlreadyRunningNever(task) == FALSE

\* faulty variant: a registered handle blocks the start even when it is done
AlreadyRunningRegistered(task) == task # NoTask

\* killfeed.py:137-141: the key is registered and its task is not done
AlreadyRunning(task) == task # NoTask /\ ~Done(task)

\* Killfeed.start / Events.start up to `await ctx.send(...)`: the command is
\* answered with "Already Running", or a finished handle is popped and the
\* command goes on to create the task
StartCheck(k) ==
  /\ startsLeft > 0
  /\ serverExists
  /\ startsLeft' = startsLeft - 1
  /\ IF AlreadyRunning(background_tasks[k])
     THEN /\ last_start' = [key |-> k, outcome |-> "already running"]
          /\ UNCHANGED << background_tasks, starting >>
     ELSE /\ last_start' = [key |-> k, outcome |->
                IF background_tasks[k] # NoTask THEN "restarting" ELSE "starting"]
          /\ background_tasks' = [background_tasks EXCEPT ![k] = NoTask]
          /\ starting' = [starting EXCEPT ![k] = @ + 1]
  /\ UNCHANGED << nTasks, kind, sessVars, loopVars, errVars, envVars, logVars,
                  pc, must_cancel, srv_last_line, db_last_line, delivered,
                  faultsLeft, cfgVars, utilVars, procVars, cmdVars, channel_messages, owner_notified, cancelled, iter >>

\* Killfeed.start / Events.start from asyncio.create_task on
StartCreate(k) ==
  /\ starting[k] > 0
  /\ LET t == nTasks + 1 IN
       /\ nTasks' = t
       /\ kind' = [kind EXCEPT ![t] = k]
       /\ pc' = [pc EXCEPT ![t] = "created"]
       /\ background_tasks' = [background_tasks EXCEPT ![k] = t]
  /\ starting' = [starting EXCEPT ![k] = @ - 1]
  /\ UNCHANGED << startsLeft, last_start, sessVars, loopVars, errVars, envVars, logVars,
                  must_cancel, srv_last_line, db_last_line, delivered,
                  faultsLeft, cfgVars, utilVars, procVars, cmdVars, channel_messages, owner_notified, cancelled, iter >>

\* Killfeed.stop / Events.stop
Stop(k) ==
  /\ background_tasks[k] # NoTask
  /\ LET t == background_tasks[k] IN
       /\ must_cancel' = [must_cancel EXCEPT ![t] = ~Done(t)]
       /\ cancelled' = [cancelled EXCEPT ![t] = @ \/ ~Done(t)]
  /\ background_tasks' = [background_tasks EXCEPT ![k] = NoTask]
  /\ UNCHANGED << starting, nTasks, kind, startsLeft, last_start, sessVars, loopVars, errVars,
                  envVars, logVars, pc, srv_last_line, db_last_line, delivered,
                  faultsLeft, cfgVars, utilVars, procVars, cmdVars, channel_messages, owner_notified, iter >>

\* faulty variant: the done callback takes the handle out of the registry
handle_task_completion_pops(t) ==
  [k \in Kinds |-> IF background_tasks[k] = t THEN NoTask ELSE background_tasks[k]]

\* the registry after the done callback _handle_task_completion of task t,
\* which logs the outcome and edits the start message
handle_task_completion(t) == background_tasks

\* the parts of the state that no step of a monitor changes, the registry
\* entry aside
calm == << starting, nTasks, kind, startsLeft, last_start, envVars, logVars,
           must_cancel, cancelled, cfgVars >>

\* faulty variant: kills are handled only when there is a channel to show them in
HandlesKillsIfChannel(channel) == channel

\* killfeed.py:629-635: "Always process kill events, even if no channel is
\* configured"
HandlesKills(channel) == TRUE

\* killfeed_channel of task t is a channel: only the kill-feed monitor of a
\* server with a channel posts
HasChannel(t) == kind[t] = "killfeed" /\ channel_configured

\* the channel after `await channel.send(...)` of task t, if it has a channel
Posted(t) == IF HasChannel(t) THEN channel_messages + 1 ELSE channel_messages

\* faulty variant: the setup goes on without the server record
ServerFoundAlways(exists) == TRUE

\* killfeed.py:405 and 419-420: the guild has servers, and Server.get_by_id
\* returns the record
ServerFound(exists) == exists

(* ------------------------------ monitor setup ------------------------- *)
\* count_documents(...) == 0: return before the try block
SetupGuild(t) ==
  /\ Runs(t, "created")
  /\ pc' = [pc EXCEPT ![t] = IF ServerFound(serverExists) THEN "setup" ELSE "done"]
  /\ background_tasks' = IF ServerFound(serverExists) THEN background_tasks
                         ELSE handle_task_completion(t)
  /\ UNCHANGED << calm, utilVars, procVars, cmdVars, channel_messages, owner_notified, sessVars, loopVars, errVars, srv_last_line, db_last_line,
                  delivered, faultsLeft, iter >>

\* Server.get_by_id, then the session is chosen
SetupServer(t) ==
  /\ Runs(t, "setup")
  /\ IF ~ServerFound(serverExists)
     THEN /\ EnterFinally(t)
          /\ UNCHANGED << sftp_client, srv_last_line >>
     ELSE /\ srv_last_line' = [srv_last_line EXCEPT ![t] = db_last_line[kind[t]]]
          /\ sftp_client' = [sftp_client EXCEPT ![t] =
                IF kind[t] = "events" /\ sftp_connections # NoTask
                THEN sftp_connections ELSE t]
          /\ pc' = [pc EXCEPT ![t] = "connecting"]
          /\ UNCHANGED << client, sftp_connections >>
  /\ UNCHANGED << quiet, utilVars, procVars, cmdVars, channel_messages, owner_notified, connected, loopVars, errVars, db_last_line, delivered,
                  faultsLeft, iter >>

\* await sftp_client.connect(), then the session is stored in the map
SetupConnect(t) ==
  /\ Runs(t, "connecting")
  /\ LET c == sftp_client[t] IN
       /\ \/ /\ ~dead
             /\ connected' = SetConnected(c, TRUE)
             /\ NoFault
          \/ /\ CanFault(t)
             /\ ~connected[c]
             /\ connected' = connected
             /\ Faulted
       /\ sftp_connections' = IF c = t THEN t ELSE sftp_connections
  /\ channel_messages' = Posted(t)    \* "Killfeed Monitor Active"
  /\ pc' = [pc EXCEPT ![t] = "poll"]
  /\ UNCHANGED << quiet, utilVars, procVars, cmdVars, owner_notified, sftp_client, client, loopVars, errVars, srv_last_line,
                  db_last_line, delivered, iter >>

(* ------------------------------ polling loop -------------------------- *)
\* get_latest_csv_file() / get_log_file() at the top of the loop
ListLatest(t) ==
  /\ Runs(t, "poll")
  /\ UNCHANGED << total_lines, new_lines, idx, processed_events >>
  /\ \/ \* a file is found; last_line = server.last_csv_line
        /\ Usable(t)
        /\ UNCHANGED iter
        /\ last_line' = [last_line EXCEPT ![t] = srv_last_line[t]]
        /\ pc' = [pc EXCEPT ![t] = "probe"]
        /\ NoFault
        /\ UNCHANGED << sessVars, errVars >>
     \/ \* no file is found
        /\ ~Usable(t) \/ CanFault(t)
        /\ IF Usable(t) THEN Faulted ELSE NoFault
        /\ UNCHANGED << last_line, iter >>
        /\ \/ \* less than five minutes since the last success
              /\ pc' = [pc EXCEPT ![t] = "sleep"]
              /\ UNCHANGED connected
           \/ \* more: disconnect, sleep(1), connect
              /\ connected' = Disconnect(sftp_client[t])
              /\ pc' = [pc EXCEPT ![t] = "pause_nofile"]
        /\ UNCHANGED << sftp_connections, sftp_client, client, errVars >>
     \/ \* the listing raises
        /\ ~Usable(t) \/ CanFault(t)
        /\ IF Usable(t) THEN Faulted ELSE NoFault
        /\ UNCHANGED last_line
        /\ iter' = [iter EXCEPT ![t].error = "listing"]
        /\ OuterHandler(t)
        /\ UNCHANGED << sftp_client, reconnect_attempts, backoff_time >>
  /\ UNCHANGED << quiet, utilVars, procVars, cmdVars, channel_messages, owner_notified, srv_last_line, db_last_line, delivered >>

\* the connect() after the one-second pause of the no-file branch
PauseNoFile(t) ==
  /\ Runs(t, "pause_nofile")
  /\ \/ ~dead /\ connected' = SetConnected(sftp_client[t], TRUE) /\ NoFault
     \/ CanFault(t) /\ UNCHANGED connected /\ Faulted
  /\ pc' = [pc EXCEPT ![t] = "sleep"]
  /\ UNCHANGED << quiet, utilVars, procVars, cmdVars, channel_messages, owner_notified, sftp_connections, sftp_client, client, loopVars, errVars,
                  srv_last_line, db_last_line, delivered, iter >>

\* handlers of the inner try around get_file_size / read_file
ReadFault(t) ==
  \/ \* asyncio.TimeoutError: disconnect, sleep(1), connect
     /\ CanFault(t)
     /\ Faulted
     /\ connected' = Disconnect(sftp_client[t])
     /\ pc' = [pc EXCEPT ![t] = "pause_timeout"]
     /\ iter' = [iter EXCEPT ![t].error = "timeout"]
     /\ UNCHANGED consecutive_errors
  \/ \* any other exception
     /\ ~Usable(t) \/ CanFault(t)
     /\ IF Usable(t) THEN Faulted ELSE NoFault
     /\ consecutive_errors' = [consecutive_errors EXCEPT ![t] = CountError(@)]
     /\ pc' = [pc EXCEPT ![t] = "sleep"]
     /\ iter' = [iter EXCEPT ![t].error = "io"]
     /\ UNCHANGED connected

\* total_lines = await sftp_client.get_file_size(...)
Probe(t) ==
  /\ Runs(t, "probe")
  /\ \/ /\ Usable(t)
        /\ ~dead
        /\ total_lines' = [total_lines EXCEPT ![t] = fileLen]
        /\ consecutive_errors' = [consecutive_errors EXCEPT ![t] = 0]
        /\ reconnect_attempts' = [reconnect_attempts EXCEPT ![t] = 0]
        /\ backoff_time' = [backoff_time EXCEPT ![t] = BaseBackoff]
        /\ pc' = [pc EXCEPT ![t] =
              IF NoNewLines(fileLen, last_line[t]) THEN "sleep" ELSE "read"]
        /\ NoFault
        /\ UNCHANGED << connected, iter >>
     \/ /\ ReadFault(t)
        /\ UNCHANGED << total_lines, reconnect_attempts, backoff_time >>
  /\ UNCHANGED << quiet, utilVars, procVars, cmdVars, channel_messages, owner_notified, sftp_connections, sftp_client, client, last_line, new_lines,
                  idx, processed_events, srv_last_line, db_last_line, delivered >>

\* new_lines = await sftp_client.read_file(..., start_line=last_line), then
\* parse_kill_lines / parse_log_lines
Read(t) ==
  /\ Runs(t, "read")
  /\ \/ /\ Usable(t)
        /\ ~dead
        /\ LET n == IF fileLen > last_line[t]
                    THEN fileLen - last_line[t] ELSE 0
               nEvents == Len(ParseLines(last_line[t], n))
           IN /\ new_lines' = [new_lines EXCEPT ![t] = n]
              /\ pc' = [pc EXCEPT ![t] =
                    IF n = 0 THEN "sleep"
                    ELSE IF nEvents > 0 THEN "deliver"
                    ELSE IF ShouldAdvance(0, nEvents) THEN "advance" ELSE "sleep"]
        /\ NoFault
        /\ UNCHANGED << connected, consecutive_errors, iter >>
     \/ /\ ReadFault(t)
        /\ UNCHANGED new_lines
  /\ UNCHANGED << quiet, utilVars, procVars, cmdVars, channel_messages, owner_notified, sftp_connections, sftp_client, client, last_line, total_lines,
                  idx, processed_events, reconnect_attempts, backoff_time,
                  srv_last_line, db_last_line, delivered >>

\* the connect() after the one-second pause of the timeout handler
PauseTimeout(t) ==
  /\ Runs(t, "pause_timeout")
  /\ \/ /\ ~dead
        /\ connected' = SetConnected(sftp_client[t], TRUE)
        /\ NoFault
        /\ UNCHANGED consecutive_errors
     \/ /\ CanFault(t)
        /\ Faulted
        /\ consecutive_errors' = [consecutive_errors EXCEPT ![t] = CountError(@)]
        /\ UNCHANGED connected
  /\ pc' = [pc EXCEPT ![t] = "sleep"]
  /\ UNCHANGED << quiet, utilVars, procVars, cmdVars, channel_messages, owner_notified, sftp_connections, sftp_client, client, loopVars,
                  reconnect_attempts, backoff_time, srv_last_line, db_last_line,
                  delivered, iter >>

\* one turn of `for kill_event in kill_events`: process_kill_event /
\* process_event catches every Exception itself, so the call returns
\* normally whether or not the record was stored
Deliver(t) ==
  /\ Runs(t, "deliver")
  /\ LET events == Batch(t)
         e == events[idx[t] + 1]
         processed == processed_events[t] + 1
     IN /\ \/ /\ HandlesKills(HasChannel(t))
              /\ delivered' = [delivered EXCEPT ![kind[t]][e] = @ + 1]
              /\ channel_messages' = Posted(t)
              /\ NoFault
              /\ UNCHANGED iter
           \/ /\ HandlesKills(HasChannel(t))
              /\ CanFault(t)
              /\ Faulted
              /\ iter' = [iter EXCEPT ![t].failed = TRUE]
              /\ UNCHANGED << delivered, channel_messages >>
           \/ /\ ~HandlesKills(HasChannel(t))
              /\ NoFault
              /\ UNCHANGED << delivered, channel_messages, iter >>
        /\ processed_events' = [processed_events EXCEPT ![t] = processed]
        /\ idx' = [idx EXCEPT ![t] = @ + 1]
        /\ IF idx[t] + 1 < Len(events)
           THEN UNCHANGED << pc, consecutive_errors >>
           ELSE IF ShouldAdvance(processed, Len(events))
                THEN /\ pc' = [pc EXCEPT ![t] = "advance"]
                     /\ UNCHANGED consecutive_errors
                ELSE /\ pc' = [pc EXCEPT ![t] = "sleep"]
                     /\ consecutive_errors' = [consecutive_errors EXCEPT ![t] = 0]
  /\ UNCHANGED << quiet, utilVars, procVars, cmdVars, owner_notified, sessVars, last_line, total_lines, new_lines,
                  reconnect_attempts, backoff_time, srv_last_line, db_last_line >>

\* Server.update_last_csv_line / update_last_log_line: the Server object of
\* the task and the stored server record take the given value
update_last_line(t, value) ==
  /\ srv_last_line' = [srv_last_line EXCEPT ![t] = value]
  /\ db_last_line' = [db_last_line EXCEPT ![kind[t]] = value]

\* await server.update_last_csv_line(last_line + len(new_lines))
Advance(t) ==
  /\ Runs(t, "advance")
  /\ \/ /\ update_last_line(t, NewCursor(last_line[t], new_lines[t], Len(Batch(t))))
        /\ consecutive_errors' = [consecutive_errors EXCEPT ![t] = 0]
        /\ iter' = [iter EXCEPT ![t].advanced = TRUE]
        /\ pc' = [pc EXCEPT ![t] = "sleep"]
        /\ NoFault
        /\ UNCHANGED << sessVars >>
     \/ /\ CanFault(t)
        /\ Faulted
        /\ OuterHandler(t)
        /\ UNCHANGED << sftp_client, srv_last_line, db_last_line, iter >>
  /\ UNCHANGED << quiet, utilVars, procVars, cmdVars, channel_messages, owner_notified, loopVars, reconnect_attempts, backoff_time, delivered >>

\* await asyncio.sleep(REFRESH_INTERVAL); the locals of the iteration that
\* ended are not read again before they are assigned
Sleep(t) ==
  /\ Runs(t, "sleep")
  /\ pc' = [pc EXCEPT ![t] = "poll"]
  /\ iter' = [iter EXCEPT ![t] = FreshIter]
  /\ last_line' = [last_line EXCEPT ![t] = NoValue]
  /\ total_lines' = [total_lines EXCEPT ![t] = NoValue]
  /\ new_lines' = [new_lines EXCEPT ![t] = 0]
  /\ idx' = [idx EXCEPT ![t] = 0]
  /\ processed_events' = [processed_events EXCEPT ![t] = 0]
  /\ UNCHANGED << quiet, utilVars, procVars, cmdVars, channel_messages, owner_notified, sessVars, errVars, srv_last_line, db_last_line,
                  delivered, faultsLeft >>

\* after sleep(backoff_time): connect()
Backoff(t) ==
  /\ Runs(t, "backoff")
  /\ \/ /\ ~dead
        /\ connected' = SetConnected(sftp_client[t], TRUE)
        /\ consecutive_errors' = [consecutive_errors EXCEPT ![t] = 0]
        /\ backoff_time' = [backoff_time EXCEPT ![t] = NextBackoff(@)]
        /\ NoFault
        /\ reconnect_attempts' = [reconnect_attempts EXCEPT ![t] = @ + 1]
     \/ \* connect() returns False
        /\ CanFault(t)
        /\ Faulted
        /\ reconnect_attempts' = [reconnect_attempts EXCEPT ![t] = @ + 1]
        /\ UNCHANGED << connected, consecutive_errors, backoff_time >>
     \/ \* connect() raises: `except Exception as reconnect_e`
        /\ CanFault(t)
        /\ Faulted
        /\ UNCHANGED << connected, errVars >>
  /\ pc' = [pc EXCEPT ![t] = "sleep"]
  /\ UNCHANGED << quiet, utilVars, procVars, cmdVars, channel_messages, owner_notified, sftp_connections, sftp_client, client, loopVars,
                  srv_last_line, db_last_line, delivered, iter >>

\* reconnect budget spent: `await guild.owner.send(...)` inside
\* `try: ... except Exception: pass`, then break
NotifyOwner(t) ==
  /\ Runs(t, "notify")
  /\ \/ owner_notified' = [owner_notified EXCEPT ![t] = "sent"]
     \/ \* no owner in the cache, or the send raises
        /\ flaky
        /\ owner_notified' = [owner_notified EXCEPT ![t] = "unsent"]
  /\ EnterFinally(t)
  /\ UNCHANGED << quiet, utilVars, procVars, cmdVars, channel_messages, connected, sftp_client, loopVars, errVars, srv_last_line,
                  db_last_line, delivered, faultsLeft, iter >>

\* the coroutine of t has returned: its locals no longer exist
Forget(t) ==
  /\ sftp_client' = [sftp_client EXCEPT ![t] = NoTask]
  /\ client' = [client EXCEPT ![t] = NoTask]
  /\ srv_last_line' = [srv_last_line EXCEPT ![t] = 0]
  /\ last_line' = [last_line EXCEPT ![t] = NoValue]
  /\ total_lines' = [total_lines EXCEPT ![t] = NoValue]
  /\ new_lines' = [new_lines EXCEPT ![t] = 0]
  /\ idx' = [idx EXCEPT ![t] = 0]
  /\ processed_events' = [processed_events EXCEPT ![t] = 0]
  /\ consecutive_errors' = [consecutive_errors EXCEPT ![t] = 0]
  /\ reconnect_attempts' = [reconnect_attempts EXCEPT ![t] = 0]
  /\ backoff_time' = [backoff_time EXCEPT ![t] = BaseBackoff]
  /\ iter' = [iter EXCEPT ![t] = FreshIter]

\* finally: await client.disconnect(), then the shutdown notification
Closing(t) ==
  /\ Runs(t, "closing")
  /\ connected' = Disconnect(client[t])
  /\ pc' = [pc EXCEPT ![t] = "done"]
  /\ Forget(t)
  /\ background_tasks' = handle_task_completion(t)
  /\ channel_messages' = IF serverExists THEN Posted(t) ELSE channel_messages
  /\ UNCHANGED << calm, utilVars, procVars, cmdVars, owner_notified, sftp_connections, db_last_line, delivered, faultsLeft >>

\* CancelledError is raised at the await the task is suspended in
Cancelled(t) ==
  /\ must_cancel[t]
  /\ Live(t)
  /\ must_cancel' = [must_cancel EXCEPT ![t] = FALSE]
  /\ IF pc[t] \in {"created", "closing"}
     THEN \* outside the try block, or inside the finally block: the task ends,
          \* and a disconnect() in progress may or may not have completed
          /\ pc' = [pc EXCEPT ![t] = "done"]
          /\ \/ connected' = connected /\ UNCHANGED channel_messages
             \/ /\ connected' = Disconnect(client[t])
                /\ channel_messages' \in
                     {channel_messages,
                      IF pc[t] = "closing" /\ serverExists THEN Posted(t)
                      ELSE channel_messages}
          /\ Forget(t)
          /\ UNCHANGED sftp_connections
     ELSE IF pc[t] \in {"probe", "read"} /\ ExceptExceptionCatches("CancelledError")
     THEN \* `except Exception as file_e`
          /\ consecutive_errors' = [consecutive_errors EXCEPT ![t] = CountError(@)]
          /\ pc' = [pc EXCEPT ![t] = "sleep"]
          /\ UNCHANGED << sessVars, loopVars, reconnect_attempts, backoff_time,
                          srv_last_line, iter, channel_messages >>
     ELSE \* `except asyncio.CancelledError`, then finally
          /\ EnterFinally(t)
          /\ UNCHANGED << connected, sftp_client, loopVars, errVars,
                          srv_last_line, iter, channel_messages >>
  /\ UNCHANGED << regVars, envVars, logVars, cancelled, cfgVars, utilVars, procVars, cmdVars, owner_notified, db_last_line,
                  delivered, faultsLeft >>

(* ------------------------------ log processor ------------------------- *)
Servers == {"s1", "s2"}

\* the fields of a kill record that the parsers extract
EventData(e) ==
  IF e = "k1"
  THEN [timestamp |-> 1, killer_id |-> "A", victim_id |-> "B", weapon |-> "Rifle"]
  ELSE [timestamp |-> 3, killer_id |-> "B", victim_id |-> "A", weapon |-> "Knife"]

\* log_processor.py:216-220: the normalized entry with the server id added
ServerEvent(s, e) == [server_id |-> s] @@ EventData(e)

\* ParserCoordinator.generate_event_hash, kill branch
generate_event_hash(ev) == << ev.timestamp, ev.killer_id, ev.victim_id, ev.weapon >>

AllHashes == { generate_event_hash(ServerEvent(s, e)) : s \in Servers, e \in Events }

\* faulty variant: the set is never compacted
prune_never(hashes, other, keep) == [hashes |-> hashes, other |-> other]

\* ParserCoordinator._prune_old_hashes on a set made of the fingerprints in
\* hashes and of `other` older ones. list(set)[-1000:] keeps the last 1000 in
\* the set's iteration order, which is unrelated to the order of insertion:
\* keep is the part of hashes that survives.
PruneThreshold == 10000
PruneKeep == 1000
prune_old_hashes(hashes, other, keep) ==
  IF Cardinality(hashes) + other > PruneThreshold
  THEN [hashes |-> hashes \cap keep,
        other |-> PruneKeep - Cardinality(hashes \cap keep)]
  ELSE [hashes |-> hashes, other |-> other]

\* ParserCoordinator.is_duplicate_event
is_duplicate_event(ev, hashes, other, keep) ==
  LET event_hash == generate_event_hash(ev) IN
  IF event_hash \in hashes
  THEN [dup |-> TRUE, hashes |-> hashes, other |-> other, admitted |-> NoHash]
  ELSE [dup |-> FALSE, admitted |-> event_hash]
       @@ prune_old_hashes(hashes \cup {event_hash}, other, keep)

\* the `for entry in filtered_entries` loop of _process_server_logs over log
\* lines i..last of server s1: an entry that is_duplicate_event admits goes to
\* _process_kill_event, which stores the record unless its insert fails
\* (failing: the lines whose insert fails). st is the coordinator's state
\* and the sink.
RECURSIVE ProcessEntries(_, _, _, _, _)
ProcessEntries(i, last, st, failing, keep) ==
  IF i > last THEN st
  ELSE LET l == LineAt(i) IN
       IF l \notin Events THEN ProcessEntries(i + 1, last, st, failing, keep)
       ELSE LET ev == ServerEvent("s1", l)
                r == is_duplicate_event(ev, st.hashes, st.other, keep)
            IN ProcessEntries(i + 1, last,
                 [hashes |-> r.hashes, other |-> r.other, admitted |-> r.admitted,
                  hashed |-> st.hashed \cup {ev},
                  stored |-> IF r.dup \/ i \in failing THEN st.stored
                             ELSE [st.stored EXCEPT ![l] = @ + 1]],
                 failing, keep)

\* LogProcessorCog.process_logs_task -> _process_server_logs for the server.
\* Log entries are told apart by their position in the log: the entries newer
\* than last_processed are the lines after it.
ProcessLogs ==
  /\ logCog
  /\ fileLen > last_processed
  /\ \E failing \in SUBSET ((last_processed + 1)..fileLen), keep \in SUBSET AllHashes :
       /\ failing # {} => (flaky \/ faultsLeft > 0)
       /\ faultsLeft' = IF failing # {} /\ ~flaky THEN faultsLeft - 1 ELSE faultsLeft
       /\ LET r == ProcessEntries(last_processed + 1, fileLen,
                     [hashes |-> processed_event_hashes, other |-> other_hashes,
                      admitted |-> last_admitted, hashed |-> hashed,
                      stored |-> delivered["logproc"]], failing, keep)
          IN /\ processed_event_hashes' = r.hashes
             /\ other_hashes' = r.other
             /\ last_admitted' = r.admitted
             /\ hashed' = r.hashed
             /\ delivered' = [delivered EXCEPT !["logproc"] = r.stored]
  /\ last_processed' = fileLen
  /\ UNCHANGED << regVars, sessVars, loopVars, errVars, envVars, pc, must_cancel,
                  srv_last_line, db_last_line, cfgVars, utilVars, procVars, cmdVars, channel_messages, owner_notified, cancelled, iter >>

\* the same loop over the log of a second server, s2, whose only new entry
\* has the timestamp, killer, victim and weapon of k1
ProcessTwinEntry ==
  /\ backlog
  /\ ServerEvent("s2", "k1") \notin hashed
  /\ \E keep \in SUBSET AllHashes :
       LET ev == ServerEvent("s2", "k1")
           r == is_duplicate_event(ev, processed_event_hashes, other_hashes, keep)
       IN /\ processed_event_hashes' = r.hashes
          /\ other_hashes' = r.other
          /\ last_admitted' = r.admitted
          /\ hashed' = hashed \cup {ev}
  /\ UNCHANGED << regVars, sessVars, loopVars, errVars, envVars, pc, must_cancel,
                  srv_last_line, db_last_line, cfgVars, utilVars, procVars, cmdVars, channel_messages, owner_notified, cancelled, iter,
                  last_processed, delivered, faultsLeft >>

\* the same loop over a long log of older entries, all different and none
\* of them a kill modelled here: it fills the set up to the prune threshold
ProcessOlderEntries ==
  /\ backlog
  /\ other_hashes = 0
  /\ other_hashes' = PruneThreshold - Cardinality(processed_event_hashes)
  /\ last_admitted' = NoHash
  /\ UNCHANGED << regVars, sessVars, loopVars, errVars, envVars, pc, must_cancel,
                  srv_last_line, db_last_line, cfgVars, utilVars, procVars, cmdVars, channel_messages, owner_notified, cancelled, iter,
                  processed_event_hashes, hashed, last_processed, delivered, faultsLeft >>

\* _process_server_logs as its caller sees it: it took last_time when it was
\* entered, and after its SFTP calls it handles the entries newer than that
\* and sets last_processed
ServerLogsProcessed(run) ==
  /\ \E failing \in SUBSET ((last_time[run] + 1)..fileLen), keep \in SUBSET AllHashes :
       /\ failing # {} => (flaky \/ faultsLeft > 0)
       /\ faultsLeft' = IF failing # {} /\ ~flaky THEN faultsLeft - 1 ELSE faultsLeft
       /\ LET r == ProcessEntries(last_time[run] + 1, fileLen,
                     [hashes |-> processed_event_hashes, other |-> other_hashes,
                      admitted |-> last_admitted, hashed |-> hashed,
                      stored |-> delivered["logproc"]], failing, keep)
          IN /\ processed_event_hashes' = r.hashes
             /\ other_hashes' = r.other
             /\ last_admitted' = r.admitted
             /\ hashed' = r.hashed
             /\ delivered' = [delivered EXCEPT !["logproc"] = r.stored]
  /\ last_processed' = IF fileLen > last_time[run] THEN fileLen ELSE last_processed

\* an execution of _process_server_logs is between its first and its last line
InServerLogs(run) == IF run = 0 THEN log_task = "running" ELSE commands[run] = "running"

\* process_logs_task: may this tick process the servers?
TaskMayRun(flag) == ~flag

\* process_logs_task, up to the first await of _process_server_logs
TaskEnter ==
  /\ manual
  /\ log_task = "idle"
  /\ TaskMayRun(is_processing)
  /\ is_processing' = TRUE
  /\ log_task' = "running"
  /\ last_time' = [last_time EXCEPT ![0] = last_processed]
  /\ UNCHANGED << regVars, sessVars, loopVars, errVars, envVars, logVars, pc, must_cancel,
                  srv_last_line, db_last_line, delivered, faultsLeft, cfgVars, utilVars, cmdVars,
                  processing_lock, commands, channel_messages, owner_notified, cancelled, iter >>

\* process_logs_task, from there to the end of its finally clause
TaskLeave ==
  /\ log_task = "running"
  /\ ServerLogsProcessed(0)
  /\ log_task' = "idle"
  /\ is_processing' = FALSE
  /\ UNCHANGED << regVars, sessVars, loopVars, errVars, envVars, pc, must_cancel,
                  srv_last_line, db_last_line, cfgVars, utilVars, cmdVars, processing_lock, commands,
                  last_time, channel_messages, owner_notified, cancelled, iter >>

\* process_logs_command, up to "async with self.processing_lock": the
\* look-back of the command moves last_processed to an earlier time
CommandCall(c) ==
  /\ manual
  /\ commands[c] = "idle"
  /\ \E back \in 0..last_processed : last_processed' = back
  /\ commands' = [commands EXCEPT ![c] = "waiting"]
  /\ UNCHANGED << regVars, sessVars, loopVars, errVars, envVars, pc, must_cancel,
                  srv_last_line, db_last_line, delivered, faultsLeft, cfgVars, utilVars, cmdVars,
                  processed_event_hashes, other_hashes, last_admitted, hashed,
                  is_processing, processing_lock, log_task, last_time,
                  channel_messages, owner_notified, cancelled, iter >>

\* the command gets the lock and enters _process_server_logs
CommandAcquire(c) ==
  /\ commands[c] = "waiting"
  /\ ~processing_lock
  /\ processing_lock' = TRUE
  /\ commands' = [commands EXCEPT ![c] = "running"]
  /\ last_time' = [last_time EXCEPT ![c] = last_processed]
  /\ UNCHANGED << regVars, sessVars, loopVars, errVars, envVars, logVars, pc, must_cancel,
                  srv_last_line, db_last_line, delivered, faultsLeft, cfgVars, utilVars, cmdVars,
                  is_processing, log_task, channel_messages, owner_notified, cancelled, iter >>

\* _process_server_logs returns to the command, which leaves the lock
CommandRelease(c) ==
  /\ commands[c] = "running"
  /\ ServerLogsProcessed(c)
  /\ processing_lock' = FALSE
  /\ commands' = [commands EXCEPT ![c] = "idle"]
  /\ UNCHANGED << regVars, sessVars, loopVars, errVars, envVars, pc, must_cancel,
                  srv_last_line, db_last_line, cfgVars, utilVars, cmdVars, is_processing, log_task,
                  last_time, channel_messages, owner_notified, cancelled, iter >>

(* ------------------------------ environment --------------------------- *)
\* the game server writes the next record to its CSV file and to its log
AppendLine ==
  /\ fileLen < linesCap
  /\ fileLen' = fileLen + 1
  /\ UNCHANGED << serverExists, dead, regVars, sessVars, loopVars, errVars, logVars, pc,
                  must_cancel, srv_last_line, db_last_line, delivered, faultsLeft,
                  cfgVars, utilVars, procVars, cmdVars, channel_messages, owner_notified, cancelled, iter >>

\* the game server restarts: its files are replaced by new, empty ones
RotateFile ==
  /\ fileLen > 0
  /\ fileLen' = 0
  /\ UNCHANGED << serverExists, dead, regVars, sessVars, loopVars, errVars, logVars, pc,
                  must_cancel, srv_last_line, db_last_line, delivered, faultsLeft,
                  cfgVars, utilVars, procVars, cmdVars, channel_messages, owner_notified, cancelled, iter >>

\* an administrator removes the server from the guild
RemoveServer ==
  /\ removable
  /\ serverExists
  /\ serverExists' = FALSE
  /\ UNCHANGED << fileLen, dead, regVars, sessVars, loopVars, errVars, logVars, pc,
                  must_cancel, srv_last_line, db_last_line, delivered, faultsLeft,
                  cfgVars, utilVars, procVars, cmdVars, channel_messages, owner_notified, cancelled, iter >>

\* an administrator adds the server to the guild again
RestoreServer ==
  /\ restorable
  /\ ~serverExists
  /\ serverExists' = TRUE
  /\ UNCHANGED << fileLen, dead, regVars, sessVars, loopVars, errVars, logVars, pc,
                  must_cancel, srv_last_line, db_last_line, delivered, faultsLeft,
                  cfgVars, utilVars, procVars, cmdVars, channel_messages, owner_notified, cancelled, iter >>

\* the SFTP endpoint goes away for good: from here on every get_file_size,
\* read_file and connect fails
EndpointDies ==
  /\ mortal
  /\ ~dead
  /\ dead' = TRUE
  /\ UNCHANGED << fileLen, serverExists, regVars, sessVars, loopVars, errVars, logVars, pc,
                  must_cancel, srv_last_line, db_last_line, delivered, faultsLeft,
                  cfgVars, utilVars, procVars, cmdVars, channel_messages, owner_notified, cancelled, iter >>

(* ------------------------------ parser utilities --------------------- *)
\* values of the fields of a parsed entry
Ids == {Absent, None, "", "A", "B"}
EventTypes == {Absent, "kill", "mission", "join"}
IsoText == "2024-01-02T03:04:05"
CsvText == "2024.01.03-04.05.06"
Timestamps == {Absent, None, IsoText, CsvText, "junk", "<datetime 1>"}
Distances == {Absent, None, "12.7", "far", "inf", "<int 5>"}
UtcNow == "<datetime now>"

RawEvents == [killer_id : Ids, victim_id : Ids, event_type : EventTypes,
              timestamp : Timestamps, distance : Distances]

\* isinstance(value, str)
IsStr(value) == value \in {"", "A", "B", IsoText, CsvText, "junk", "12.7", "far", "inf"}

\* datetime.fromisoformat, then datetime.strptime with the common formats;
\* "junk" matches none of them and the value stays a string
ParseTime(text) ==
  IF text = IsoText THEN "<datetime 2>"
  ELSE IF text = CsvText THEN "<datetime 3>"
  ELSE text

\* normalize_event_data, "Ensure timestamp is datetime": a string is parsed
\* or replaced by the current time, a missing key becomes the current time,
\* any other value is left as it is
NormalTimestamp(timestamp) ==
  IF timestamp = Absent THEN UtcNow
  ELSE IF IsStr(timestamp)
       THEN IF IsStr(ParseTime(timestamp)) THEN UtcNow ELSE ParseTime(timestamp)
       ELSE timestamp

\* normalize_event_data, player identifiers: None becomes ""
NormalId(id) == IF id = None THEN "" ELSE id

\* normalize_event_data, distance: None becomes 0, a string goes through
\* int(float(...)); float("inf") is a float and int() of it raises
\* OverflowError, which `except (ValueError, TypeError)` does not catch
NormalDistance(distance) ==
  IF distance = None THEN "<int 0>"
  ELSE IF distance = "12.7" THEN "<int 12>"
  ELSE IF distance = "far" THEN "<int 0>"
  ELSE IF distance = "inf" THEN "OverflowError"
  ELSE distance

normalize_event_data(event) ==
  [killer_id |-> NormalId(event.killer_id),
   victim_id |-> NormalId(event.victim_id),
   event_type |-> event.event_type,
   timestamp |-> NormalTimestamp(event.timestamp),
   distance |-> NormalDistance(event.distance)]

\* truth value of a field in a condition
Truthy(value) == value \notin {"", None}

\* faulty variant: no kill is taken for a suicide
IsSuicideNever(killer_id, victim_id) == FALSE

\* categorize_event, "Check for suicide"
IsSuicide(killer_id, victim_id) ==
  Truthy(killer_id) /\ Truthy(victim_id) /\ killer_id = victim_id

categorize_event(event) ==
  IF event.event_type = "join" THEN "connection"
  ELSE IF event.event_type = "mission" THEN "mission"
  ELSE IF event.killer_id # Absent /\ event.victim_id # Absent
       THEN IF IsSuicide(event.killer_id, event.victim_id) THEN "suicide" ELSE "kill"
       ELSE "unknown"

\* log_processor.py:214: normalized_event = normalize_event_data(entry); an
\* exception ends the handling of the entry
Normalize ==
  /\ raw_event # NoEvent
  /\ normalized_event = NoEvent
  /\ category = "none"
  /\ LET n == normalize_event_data(raw_event) IN
       IF n.distance = "OverflowError"
       THEN category' = "raised" /\ UNCHANGED normalized_event
       ELSE normalized_event' = n /\ UNCHANGED category
  /\ UNCHANGED << raw_event, guilds_db, lookup, regVars, sessVars, loopVars, errVars,
                  envVars, logVars, pc,
                  must_cancel, srv_last_line, db_last_line, delivered, faultsLeft,
                  cfgVars, procVars, cmdVars, channel_messages, owner_notified, cancelled, iter >>

\* log_processor.py:227: event_type = categorize_event(normalized_event)
Categorize ==
  /\ normalized_event # NoEvent
  /\ category = "none"
  /\ category' = categorize_event(normalized_event)
  /\ UNCHANGED << raw_event, normalized_event, guilds_db, lookup, regVars, sessVars,
                  loopVars, errVars,
                  envVars, logVars, pc, must_cancel, srv_last_line, db_last_line,
                  delivered, faultsLeft, cfgVars, procVars, cmdVars, channel_messages, owner_notified,
                  cancelled, iter >>

(* ------------------------------ server utilities --------------------- *)
\* a guild id is an int or a str; the server ids of the two guilds
GuildIds == {"int", "str"} \X {1, 2}
ServerIds == {"s1", "s2"}

\* str(guild_id)
Str(id) == << "str", id[2] >>

\* the documents a guild can have: its id as it was stored, and the server
\* ids found in data.servers, in servers and in server_ids
GuildDocs(n) ==
  [guild_id : {"int", "str"} \X {n}, data_servers : SUBSET ServerIds,
   servers : SUBSET ServerIds, server_ids : SUBSET ServerIds]

\* faulty variant: the guild document is looked up by the server it lists
FindOneByServer(database, guild_id, server_id) ==
  IF \E n \in 1..2 : server_id \in database[n].servers
  THEN database[CHOOSE n \in 1..2 : server_id \in database[n].servers]
  ELSE NoDoc

\* db.guilds.find_one({"guild_id": guild_id})
FindOne(database, guild_id, server_id) ==
  IF \E n \in 1..2 : database[n].guild_id = guild_id
  THEN database[CHOOSE n \in 1..2 : database[n].guild_id = guild_id]
  ELSE NoDoc

\* the server ids stored under a guild document, in any of the three places
StoredUnder(doc) == doc.data_servers \cup doc.servers \cup doc.server_ids

\* server_utils.get_server_by_id: the ids of the server returned ({} for None)
get_server_by_id(database, guild_id, server_id) ==
  LET guild == FindOne(database, Str(guild_id), server_id) IN
  IF guild = NoDoc THEN {}
  ELSE IF server_id \in guild.data_servers THEN {server_id}
  ELSE IF server_id \in guild.servers THEN {server_id}
  ELSE IF server_id \in guild.server_ids THEN {server_id}
  ELSE {}

\* server_utils.get_all_servers: the ids of the servers returned
get_all_servers(database, guild_id) ==
  LET guild == FindOne(database, Str(guild_id), "none") IN
  IF guild = NoDoc THEN {}
  ELSE guild.data_servers \cup guild.servers \cup guild.server_ids

GetServerById ==
  \E g \in GuildIds, sid \in ServerIds :
    /\ lookup = NoLookup
    /\ lookup' = [fn |-> "get_server_by_id", guild_id |-> g, server_id |-> sid,
                  result |-> get_server_by_id(guilds_db, g, sid)]
    /\ UNCHANGED << guilds_db, raw_event, normalized_event, category, regVars, sessVars,
                    loopVars, errVars, envVars, logVars, pc, must_cancel, srv_last_line,
                    db_last_line, delivered, faultsLeft, cfgVars, procVars, cmdVars, channel_messages,
                    owner_notified, cancelled, iter >>

GetAllServers ==
  \E g \in GuildIds :
    /\ lookup = NoLookup
    /\ lookup' = [fn |-> "get_all_servers", guild_id |-> g, server_id |-> "none",
                  result |-> get_all_servers(guilds_db, g)]
    /\ UNCHANGED << guilds_db, raw_event, normalized_event, category, regVars, sessVars,
                    loopVars, errVars, envVars, logVars, pc, must_cancel, srv_last_line,
                    db_last_line, delivered, faultsLeft, cfgVars, procVars, cmdVars, channel_messages,
                    owner_notified, cancelled, iter >>

(* ------------------------------ specification ------------------------- *)
TaskStep(t) ==
  \/ SetupGuild(t) \/ SetupServer(t) \/ SetupConnect(t)
  \/ ListLatest(t) \/ PauseNoFile(t) \/ Probe(t) \/ Read(t) \/ PauseTimeout(t)
  \/ Deliver(t) \/ Advance(t) \/ Sleep(t) \/ Backoff(t) \/ NotifyOwner(t)
  \/ Closing(t)
  \/ Cancelled(t)

Next ==
  \/ \E k \in Kinds : StartCheck(k) \/ StartCreate(k) \/ Stop(k)
  \/ \E t \in Tasks : TaskStep(t)
  \/ ProcessLogs
  \/ TaskEnter
  \/ TaskLeave
  \/ \E c \in Commands : CommandCall(c) \/ CommandAcquire(c) \/ CommandRelease(c)
  \/ ProcessTwinEntry
  \/ ProcessOlderEntries
  \/ AppendLine
  \/ RotateFile
  \/ RemoveServer
  \/ RestoreServer
  \/ EndpointDies

Spec == Init /\ [][Next]_vars

\* deployments in which each cog is started at most once
InitSolo == Init /\ startsLeft <= 1

\* the event loop runs every task that is ready
FairSpec == InitSolo /\ [][Next]_vars /\ \A t \in Tasks : WF_vars(TaskStep(t))

\* the parser utilities applied to one parsed entry; no monitor is started
Idle == [name |-> "idle", starts |-> 0, faults |-> 0, flaky |-> FALSE,
         lines |-> 0, logs |-> FALSE, removal |-> FALSE, restore |-> FALSE,
         backlog |-> FALSE, channel |-> FALSE, outage |-> FALSE, manual |-> FALSE]

ParserInit ==
  /\ Start(Idle)
  /\ guilds_db = << NoDoc, NoDoc >>
  /\ lookup = NoLookup
  /\ raw_event \in RawEvents \ {NoEvent}
  /\ normalized_event = NoEvent
  /\ category = "none"

ParserNext == Normalize \/ Categorize

ParserSpec == ParserInit /\ [][ParserNext]_vars

\* the server utilities called on a database of two guilds
LookupInit ==
  /\ Start(Idle)
  /\ raw_event = NoEvent
  /\ normalized_event = NoEvent
  /\ category = "none"
  /\ guilds_db \in (GuildDocs(1) \cup {NoDoc}) \X (GuildDocs(2) \cup {NoDoc})
  /\ lookup = NoLookup

LookupNext == GetServerById \/ GetAllServers

LookupSpec == LookupInit /\ [][LookupNext]_vars

(* --------------------- killfeed commands of several guilds ------------ *)
\* faulty variant: every server id is taken to be one of the guild
server_exists_always(guild, server_id) == TRUE

\* Killfeed.start: is server_id in the "servers" list of the guild's document?
server_exists(guild, server_id) == server_id \in GuildServers(guild)

\* f"killfeed_{ctx.guild.id}_{server_id}", as the list of its parts between
\* underscores: two names are the same string exactly when they have the
\* same parts
task_name(guild, server_id) == << "killfeed", str(guild) >> \o server_id

\* f"{guild_id}_{server_id}", the key of the monitor's session
session_key(guild, server_id) == << str(guild) >> \o server_id

\* task_name.startswith(f"killfeed_{ctx.guild.id}_")
startswith_guild(name, guild) ==
  Len(name) >= 3 /\ name[1] = "killfeed" /\ name[2] = str(guild)

\* faulty variant: bot.background_tasks without any task of the key's guild
pop_guild(tasks, name) ==
  [n \in {x \in DOMAIN tasks : x[2] # name[2]} |-> tasks[n]]

\* bot.background_tasks.pop(task_name)
pop(tasks, name) == [n \in DOMAIN tasks \ {name} |-> tasks[n]]

\* task.cancel(): a task that is done stays as it is
cancel(task) == IF task.done THEN task ELSE [task EXCEPT !.cancel_requested = TRUE]

\* Killfeed.start(ctx, server_id)
KillfeedStart(guild, server_id) ==
  LET name == task_name(guild, server_id) IN
  /\ IF ~server_exists(guild, server_id)
     THEN /\ reply' = [NoReply EXCEPT !.command = "start", !.guild = guild,
                                      !.server_id = server_id, !.outcome = "not found"]
          /\ UNCHANGED << named_tasks, monitor_tasks >>
     ELSE IF name \in DOMAIN named_tasks /\ ~monitor_tasks[named_tasks[name]].done
     THEN /\ reply' = [NoReply EXCEPT !.command = "start", !.guild = guild,
                                      !.server_id = server_id, !.outcome = "already running"]
          /\ UNCHANGED << named_tasks, monitor_tasks >>
     ELSE /\ Len(monitor_tasks) < MaxStarts
          /\ monitor_tasks' = Append(monitor_tasks,
                                [guild |-> guild, server_id |-> server_id,
                                 done |-> FALSE, cancel_requested |-> FALSE])
          /\ named_tasks' = (name :> Len(monitor_tasks) + 1) @@ named_tasks
          /\ reply' = [NoReply EXCEPT !.command = "start", !.guild = guild,
                                      !.server_id = server_id, !.outcome = "started"]
  /\ UNCHANGED << open_sessions, regVars, sessVars, loopVars, errVars, envVars, logVars, pc,
                  must_cancel, srv_last_line, db_last_line, delivered, faultsLeft, cfgVars,
                  utilVars, procVars, channel_messages, owner_notified, cancelled, iter >>

\* Killfeed.stop(ctx, server_id)
KillfeedStop(guild, server_id) ==
  LET name == task_name(guild, server_id) IN
  /\ IF name \notin DOMAIN named_tasks
     THEN /\ reply' = [NoReply EXCEPT !.command = "stop", !.guild = guild,
                                      !.server_id = server_id, !.outcome = "not running"]
          /\ UNCHANGED << named_tasks, monitor_tasks >>
     ELSE /\ monitor_tasks' = [monitor_tasks EXCEPT ![named_tasks[name]] = cancel(@)]
          /\ named_tasks' = pop(named_tasks, name)
          /\ reply' = [NoReply EXCEPT !.command = "stop", !.guild = guild,
                                      !.server_id = server_id, !.outcome = "stopped"]
  /\ UNCHANGED << open_sessions, regVars, sessVars, loopVars, errVars, envVars, logVars, pc,
                  must_cancel, srv_last_line, db_last_line, delivered, faultsLeft, cfgVars,
                  utilVars, procVars, channel_messages, owner_notified, cancelled, iter >>

\* Killfeed.status(ctx): running_monitors has one entry for each task name
\* that passes the test; the entry is kept here under that name
KillfeedStatus(guild) ==
  /\ reply' = [NoReply EXCEPT !.command = "status", !.guild = guild, !.outcome = "listed",
                 !.running_monitors =
                   [name \in {n \in DOMAIN named_tasks : startswith_guild(n, guild)} |->
                      [server_id |-> name[3],
                       status |-> IF ~monitor_tasks[named_tasks[name]].done
                                  THEN "Running" ELSE "Completed"]]]
  /\ UNCHANGED << named_tasks, monitor_tasks, open_sessions, regVars, sessVars, loopVars,
                  errVars, envVars, logVars, pc, must_cancel, srv_last_line, db_last_line,
                  delivered, faultsLeft, cfgVars, utilVars, procVars, channel_messages,
                  owner_notified, cancelled, iter >>

\* start_killfeed_monitor of task t stores its SFTP client
MonitorConnects(t) ==
  /\ t \in DOMAIN monitor_tasks
  /\ ~monitor_tasks[t].done
  /\ open_sessions' = open_sessions \cup
                        {session_key(monitor_tasks[t].guild, monitor_tasks[t].server_id)}
  /\ UNCHANGED << named_tasks, monitor_tasks, reply, regVars, sessVars, loopVars,
                  errVars, envVars, logVars, pc, must_cancel, srv_last_line, db_last_line,
                  delivered, faultsLeft, cfgVars, utilVars, procVars, channel_messages,
                  owner_notified, cancelled, iter >>

\* start_killfeed_monitor of task t ends, by itself or cancelled: its finally
\* clause pops the session of its key
MonitorEnds(t) ==
  /\ t \in DOMAIN monitor_tasks
  /\ ~monitor_tasks[t].done
  /\ monitor_tasks' = [monitor_tasks EXCEPT ![t].done = TRUE]
  /\ open_sessions' = open_sessions \
                        {session_key(monitor_tasks[t].guild, monitor_tasks[t].server_id)}
  /\ UNCHANGED << named_tasks, reply, regVars, sessVars, loopVars,
                  errVars, envVars, logVars, pc, must_cancel, srv_last_line, db_last_line,
                  delivered, faultsLeft, cfgVars, utilVars, procVars, channel_messages,
                  owner_notified, cancelled, iter >>

\* the killfeed commands of the administrators of two guilds
CommandInit ==
  /\ Start(Idle)
  /\ raw_event = NoEvent
  /\ normalized_event = NoEvent
  /\ category = "none"
  /\ guilds_db = << NoDoc, NoDoc >>
  /\ lookup = NoLookup

CommandNext ==
  \/ \E guild \in Guilds, server_id \in CommandServerIds :
       KillfeedStart(guild, server_id) \/ KillfeedStop(guild, server_id)
  \/ \E guild \in Guilds : KillfeedStatus(guild)
  \/ \E t \in Tasks : MonitorConnects(t) \/ MonitorEnds(t)

CommandSpec == CommandInit /\ [][CommandNext]_vars

(* ------------------------------ server validation --------------------- *)
\* the entries of a "servers" list: a dict with a server_id that is a str or
\* a number, a dict without a server_id, or the id as a plain str
ServerNumbers == {1, 2}
StoredIds == {"int", "str"} \X ServerNumbers
ServerDicts == [kind : {"dict"}, server_id : StoredIds \cup {<< "none", 0 >>}]
ServerStrings == [kind : {"str"}, server_id : {"str"} \X ServerNumbers]

\* the lists over S with at most MaxEntries entries
ListsOf(S) == UNION {[1..n -> S] : n \in 0..MaxEntries}

\* the documents of guild 1 in the layouts of the validation test: lists for
\* data.servers and servers, and the ids of server_ids
ListedGuildDocs ==
  [guild_id : {<< "str", 1 >>},
   data_servers : ListsOf(ServerDicts \cup ServerStrings),
   servers : ListsOf(ServerDicts \cup ServerStrings),
   server_ids : ListsOf(StoredIds)]

\* check_server_exists, APPROACH 1: a dict is looked at only if it has a
\* server_id
InDataServers(entries, server_id) ==
  \E i \in DOMAIN entries :
    \/ /\ entries[i].kind = "dict"
       /\ entries[i].server_id # << "none", 0 >>
       /\ Str(entries[i].server_id) = server_id
    \/ entries[i].kind = "str" /\ Str(entries[i].server_id) = server_id

\* check_server_exists, APPROACH 2: str(server.get("server_id", "")), which
\* for a dict without server_id is the empty string
InServers(entries, server_id) ==
  \E i \in DOMAIN entries :
    \/ /\ entries[i].kind = "dict"
       /\ (IF entries[i].server_id = << "none", 0 >> THEN << "str", 0 >>
           ELSE Str(entries[i].server_id)) = server_id
    \/ entries[i].kind = "str" /\ Str(entries[i].server_id) = server_id

\* server_utils.check_server_exists
check_server_exists(database, guild_id, server_id) ==
  LET guild == FindOne(database, Str(guild_id), Str(server_id)) IN
  IF guild = NoDoc THEN FALSE
  ELSE \/ InDataServers(guild.data_servers, Str(server_id))
       \/ InServers(guild.servers, Str(server_id))
       \/ \E i \in DOMAIN guild.server_ids : Str(guild.server_ids[i]) = Str(server_id)

\* faulty variant: no id counts as seen
not_seen_always(srv_id, server_ids_seen) == TRUE

\* get_all_servers: srv_id not in server_ids_seen
not_seen(srv_id, server_ids_seen) == srv_id \notin server_ids_seen

\* get_all_servers, SOURCE 1 and SOURCE 2: the loop over one list from
\* entry i on; acc is all_servers and server_ids_seen
RECURSIVE merge_servers(_, _, _)
merge_servers(entries, i, acc) ==
  IF i > Len(entries) THEN acc
  ELSE LET server == entries[i]
           srv_id == Str(server.server_id)
       IN IF /\ server.kind = "dict" => server.server_id # << "none", 0 >>
             /\ not_seen(srv_id, acc.server_ids_seen)
          THEN merge_servers(entries, i + 1,
                 [all_servers |-> Append(acc.all_servers,
                    [server_id |-> IF server.kind = "dict" THEN server.server_id
                                   ELSE srv_id]),
                  server_ids_seen |-> acc.server_ids_seen \cup {srv_id}])
          ELSE merge_servers(entries, i + 1, acc)

\* get_all_servers, SOURCE 3: the loop over server_ids
RECURSIVE merge_server_ids(_, _, _)
merge_server_ids(ids, i, acc) ==
  IF i > Len(ids) THEN acc
  ELSE LET srv_id == Str(ids[i])
       IN IF not_seen(srv_id, acc.server_ids_seen)
          THEN merge_server_ids(ids, i + 1,
                 [all_servers |-> Append(acc.all_servers, [server_id |-> srv_id]),
                  server_ids_seen |-> acc.server_ids_seen \cup {srv_id}])
          ELSE merge_server_ids(ids, i + 1, acc)

\* server_utils.get_all_servers: the list it returns
all_servers(database, guild_id) ==
  LET guild == FindOne(database, Str(guild_id), "none") IN
  IF guild = NoDoc THEN << >>
  ELSE merge_server_ids(guild.server_ids, 1,
         merge_servers(guild.servers, 1,
           merge_servers(guild.data_servers, 1,
             [all_servers |-> << >>, server_ids_seen |-> {}]))).all_servers

\* test_check_server_exists
CheckServerExists ==
  \E g \in GuildIds, sid \in StoredIds :
    /\ lookup = NoLookup
    /\ lookup' = [fn |-> "check_server_exists", guild_id |-> g, server_id |-> sid,
                  result |-> check_server_exists(guilds_db, g, sid)]
    /\ UNCHANGED << guilds_db, raw_event, normalized_event, category, regVars, sessVars,
                    loopVars, errVars, envVars, logVars, pc, must_cancel, srv_last_line,
                    db_last_line, delivered, faultsLeft, cfgVars, procVars, cmdVars,
                    channel_messages, owner_notified, cancelled, iter >>

\* test_get_all_servers
ListAllServers ==
  \E g \in GuildIds :
    /\ lookup = NoLookup
    /\ lookup' = [fn |-> "get_all_servers", guild_id |-> g, server_id |-> "none",
                  result |-> all_servers(guilds_db, g)]
    /\ UNCHANGED << guilds_db, raw_event, normalized_event, category, regVars, sessVars,
                    loopVars, errVars, envVars, logVars, pc, must_cancel, srv_last_line,
                    db_last_line, delivered, faultsLeft, cfgVars, procVars, cmdVars,
                    channel_messages, owner_notified, cancelled, iter >>

\* the server utilities called on the documents of the validation test
ValidationInit ==
  /\ Start(Idle)
  /\ raw_event = NoEvent
  /\ normalized_event = NoEvent
  /\ category = "none"
  /\ \E doc \in ListedGuildDocs : guilds_db = << doc, NoDoc >>
  /\ lookup = NoLookup

ValidationNext == CheckServerExists \/ ListAllServers

ValidationSpec == ValidationInit /\ [][ValidationNext]_vars

(* ============================== properties ============================ *)

\* C1: a kill stored once through the CSV kill-feed pipeline and presented
\* once to the log pipeline leaves exactly one record in the kills sink, so
\* no kill is stored once by each pipeline.
C1_CrossPipelineDedup ==
  \A e \in Events :
    ~(delivered["killfeed"][e] = 1 /\ delivered["logproc"][e] = 1)

\* C2: a monitor never advances its cursor over a batch in which the storing
\* of an event failed.
C2_NoAdvanceOnFailedDelivery ==
  \A t \in Tasks : iter[t].failed => ~iter[t].advanced

\* C3: after a probe that returned total_lines < last_line the monitor has
\* reset its cursor to 0 by the time it sleeps.
C3_RotationResetsCursor ==
  \A t \in Tasks :
    (pc[t] = "sleep" /\ total_lines[t] # NoValue /\ total_lines[t] < last_line[t])
      => srv_last_line[t] = 0

\* C4: in a poll iteration whose probe returned total_lines = last_line the
\* monitor neither reads nor delivers nor writes the cursor: it is never at the
\* read, deliver or advance step, and its cursor is the one the iteration began with.
C4_IdempotentRepoll ==
  \A t \in Tasks :
    (total_lines[t] # NoValue /\ total_lines[t] = last_line[t])
      => /\ pc[t] \notin {"read", "deliver", "advance"}
         /\ ~iter[t].advanced
         /\ idx[t] = 0
         /\ srv_last_line[t] = last_line[t]

C4_Witness ==
  \E t \in Tasks :
    pc[t] = "sleep" /\ total_lines[t] = last_line[t] /\ last_line[t] > 0

\* C5: once an iteration that read n > 0 lines from cursor last_line has
\* written the cursor, the cursor of the monitor is last_line + n; when the
\* read returned the lines the probe counted, that is the probed line count.
C5_CursorAfterDelivery ==
  \A t \in Tasks :
    iter[t].advanced
      => /\ new_lines[t] > 0
         /\ srv_last_line[t] = last_line[t] + new_lines[t]
         /\ (new_lines[t] = total_lines[t] - last_line[t]
               => srv_last_line[t] = total_lines[t])

C5_Witness ==
  \E t \in Tasks :
    iter[t].advanced /\ new_lines[t] = MaxLines /\ srv_last_line[t] = fileLen

\* C6: the persisted cursor of a (guild, server, file kind) never decreases.
C6_CursorMonotone ==
  [][\A k \in Kinds : db_last_line'[k] >= db_last_line[k]]_vars

\* C7: at most one unfinished monitor task exists per registry key.
C7_OneLiveTaskPerKey ==
  \A k \in Kinds : Cardinality({t \in Tasks : kind[t] = k /\ Live(t)}) <= 1

\* C8: the key of a stopped monitor is never absent from the registry while
\* the session that monitor created is still connected.
C8_SessionClosedBeforeUnregister ==
  \A t \in Tasks :
    (cancelled[t] /\ background_tasks[kind[t]] = NoTask)
      => ~connected[t]

\* C9: two unfinished monitors never hold the same session object.
C9_SessionNotShared ==
  \A t1, t2 \in Tasks :
    (t1 # t2 /\ Live(t1) /\ Live(t2) /\ sftp_client[t1] # NoTask)
      => sftp_client[t1] # sftp_client[t2]

\* C10: a monitor that stop has cancelled takes no further step of its loop
\* (its only steps are into the finally block and to completion), and it
\* eventually finishes.
C10_CancellationLiveness ==
  /\ [][\A t \in Tasks :
         cancelled[t] => pc'[t] \in {pc[t], "closing", "done"}]_vars
  /\ \A t \in Tasks : cancelled[t] ~> Done(t)

C10_Witness ==
  \E t \in Tasks :
    must_cancel[t] /\ pc[t] \in {"sleep", "backoff", "pause_timeout", "connecting",
                                 "poll", "probe", "read"}

\* a task that left its polling loop without having been cancelled
SelfStopped(t) ==
  pc[t] = "closing" /\ sftp_client[t] # NoTask /\ ~cancelled[t]

\* C11 (as stated): a monitor that has left its polling loop without a stop
\* had spent its reconnect budget and has sent the owner the failure notice.
C11_SelfStopNotifies ==
  \A t \in Tasks :
    SelfStopped(t)
      => /\ reconnect_attempts[t] >= max_reconnect_attempts
         /\ owner_notified[t] = "sent"

\* C11 (amended): a monitor that has left its polling loop without a stop
\* had counted 5 consecutive errors and 10 reconnect attempts and has run
\* the owner notice, whose send may have failed silently.
C11_SelfStopOnlyWhenExhausted ==
  \A t \in Tasks :
    SelfStopped(t)
      => /\ reconnect_attempts[t] >= max_reconnect_attempts
         /\ consecutive_errors[t] >= max_consecutive_errors
         /\ owner_notified[t] # "none"

C11_Witness ==
  \E t \in Tasks : SelfStopped(t) /\ owner_notified[t] = "sent"

\* the step in which an I/O error of t's poll iteration is raised
ErrorStep(t) == iter'[t].error # iter[t].error /\ iter'[t].error # "none"

\* C12 (as stated): every I/O error of a poll iteration increments the
\* consecutive-error counter and takes the monitor to the reconnection with
\* backoff.
C12_ErrorReconnects ==
  [][\A t \in Tasks :
       ErrorStep(t)
         => /\ consecutive_errors'[t] = consecutive_errors[t] + 1
            /\ pc'[t] = "backoff"]_vars

\* C12 (amended): a listing error increments the counter and leads to the
\* reconnection with backoff exactly when the counter has reached 5 with
\* reconnect attempts left; any other probe or read exception increments the
\* counter and is followed by the plain sleep on the same session; a timeout
\* leaves the counter and disconnects for the one-second reconnect.
C12_ErrorHandling ==
  [][\A t \in Tasks :
       ErrorStep(t)
         => LET ce == CountError(consecutive_errors[t]) IN
            /\ iter'[t].error = "listing"
                 => /\ consecutive_errors'[t] = ce
                    /\ pc'[t] = "backoff"
                         <=> (ce >= max_consecutive_errors
                                /\ reconnect_attempts[t] < max_reconnect_attempts)
                    /\ pc'[t] = "sleep" <=> ce < max_consecutive_errors
            /\ iter'[t].error = "io"
                 => /\ consecutive_errors'[t] = ce
                    /\ pc'[t] = "sleep"
                    /\ connected' = connected
            /\ iter'[t].error = "timeout"
                 => /\ consecutive_errors'[t] = consecutive_errors[t]
                    /\ pc'[t] = "pause_timeout"
                    /\ ~connected'[sftp_client[t]]]_vars

C12_Witness ==
  \E t \in Tasks :
    /\ pc[t] = "backoff"
    /\ iter[t].error = "listing"
    /\ consecutive_errors[t] = max_consecutive_errors
    /\ connected[sftp_client[t]] = FALSE

\* the probe of t's current step returned a line count
ProbeSucceeds(t) == pc[t] = "probe" /\ total_lines'[t] # NoValue

\* C13: the wait of a reconnection is backoff_time at that moment. It stays
\* between the base of 5 and the ceiling of 60, it grows only in the step
\* that has just applied it, and it falls only back to the base, when a
\* probe succeeds (or the monitor has ended); so the waits between two
\* successful probes never decrease, and after a successful read the wait
\* is the base.
C13_BackoffMonotone ==
  /\ [][\A t \in Tasks :
         /\ backoff_time'[t] >= BaseBackoff /\ backoff_time'[t] <= BackoffCeiling
         /\ backoff_time'[t] > backoff_time[t] => pc[t] = "backoff"
         /\ backoff_time'[t] < backoff_time[t]
              => /\ backoff_time'[t] = BaseBackoff
                 /\ ProbeSucceeds(t) \/ pc'[t] = "done"
         /\ ProbeSucceeds(t) => backoff_time'[t] = BaseBackoff
         /\ pc[t] = "read" => backoff_time[t] = BaseBackoff]_vars

C13_Witness ==
  \E t \in Tasks : pc[t] = "backoff" /\ backoff_time[t] = BackoffCeiling

\* C14: the fingerprint that is_duplicate_event has just admitted is in the
\* set, so that the same event presented again at once is a duplicate,
\* whatever the size of the set.
C14_AdmittedIsRecorded ==
  last_admitted # NoHash => last_admitted \in processed_event_hashes

\* C15: two fingerprinted events of different servers never have the same
\* fingerprint.
C15_FingerprintHasServer ==
  \A a \in hashed, b \in hashed :
    a.server_id # b.server_id => generate_event_hash(a) # generate_event_hash(b)

\* the step is a start command for key k
StartCommand(k) == startsLeft' < startsLeft /\ last_start'.key = k

\* C16: a start command for a key whose registered task is still running is
\* answered with "already running", creates no task and leaves the registry
\* as it was.
C16_RunningKeyRejected ==
  [][\A k \in Kinds :
       (/\ StartCommand(k)
        /\ background_tasks[k] # NoTask
        /\ ~Done(background_tasks[k]))
       => /\ last_start'.outcome = "already running"
          /\ background_tasks' = background_tasks
          /\ starting' = starting
          /\ nTasks' = nTasks]_vars

C16_Witness ==
  /\ last_start.outcome = "already running"
  /\ background_tasks[last_start.key] # NoTask
  /\ Live(background_tasks[last_start.key])

\* C17 as stated: a start command for a key whose registered task has
\* finished is rejected.
C17_FinishedHandleBlocksStart ==
  [][\A k \in Kinds :
       (/\ StartCommand(k)
        /\ background_tasks[k] # NoTask
        /\ Done(background_tasks[k]))
       => /\ last_start'.outcome = "already running"
          /\ starting' = starting]_vars

\* C17, amended: a start command for a key whose registered task has
\* finished is accepted; the command itself removes the finished handle and
\* goes on to create a new task.
C17_FinishedHandleReaped ==
  [][\A k \in Kinds :
       (/\ StartCommand(k)
        /\ background_tasks[k] # NoTask
        /\ Done(background_tasks[k]))
       => /\ last_start'.outcome = "restarting"
          /\ background_tasks'[k] = NoTask
          /\ starting'[k] = starting[k] + 1]_vars

C17_Witness ==
  /\ last_start.outcome = "restarting"
  /\ background_tasks[last_start.key] # NoTask
  /\ Live(background_tasks[last_start.key])

\* task t has completed on its own
CompletedAlone(t) == Done(t) /\ ~cancelled[t]

\* C18 as stated: once a monitor has completed on its own, the registry
\* holds no entry for it.
C18_CompletionUnregisters ==
  \A k \in Kinds :
    background_tasks[k] # NoTask => ~CompletedAlone(background_tasks[k])

\* C18, amended: the step in which a monitor completes on its own leaves the
\* registry as it is, so a registered handle stays registered, finished,
\* until a stop or a start for its key removes it.
C18_FinishedHandleStays ==
  [][\A t \in Tasks :
       (Live(t) /\ pc'[t] = "done" /\ ~cancelled[t])
       => background_tasks' = background_tasks]_vars

C18_Witness ==
  \E k \in Kinds :
    /\ background_tasks[k] # NoTask
    /\ CompletedAlone(background_tasks[k])
    /\ owner_notified[background_tasks[k]] # "none"

\* C19: a kill-feed monitor of a server without a channel handles a kill as
\* one with a channel does: unless the insert fails the record is stored
\* and counted, after the batch the cursor moves to the end of the lines
\* read, and the monitor goes on to its next poll; nothing is posted.
C19_NoChannelSameCoreState ==
  [][\A t \in Tasks :
       (kind[t] = "killfeed" /\ ~channel_configured)
       => /\ channel_messages' = channel_messages
          /\ (pc[t] = "deliver" /\ ~must_cancel[t] /\ pc'[t] # "closing"
                /\ pc'[t] # "done" /\ ~flaky /\ faultsLeft' = faultsLeft
                /\ <<pc[t], idx[t]>> # <<pc'[t], idx'[t]>>)
             => /\ idx'[t] = idx[t] + 1
                /\ processed_events'[t] = processed_events[t] + 1
                /\ delivered'["killfeed"][Batch(t)[idx[t] + 1]]
                     = delivered["killfeed"][Batch(t)[idx[t] + 1]] + 1
                /\ pc'[t] \in {"deliver", "advance"}
          /\ (pc[t] = "advance" /\ pc'[t] = "sleep" /\ ~flaky
                /\ faultsLeft' = faultsLeft)
             => db_last_line'["killfeed"] = last_line[t] + new_lines[t]]_vars

C19_Witness ==
  /\ ~channel_configured
  /\ channel_messages = 0
  /\ db_last_line["killfeed"] > 0
  /\ \E e \in Events : delivered["killfeed"][e] > 0
  /\ \E t \in Tasks : kind[t] = "killfeed" /\ pc[t] = "poll"

\* task t is in its setup and the server record is missing, or it is
\* leaving from its setup, before it had a session
SetupExit(t) ==
  \/ pc[t] \in {"created", "setup"} /\ ~serverExists
  \/ pc[t] = "closing" /\ sftp_client[t] = NoTask

\* C20: a monitor whose server record is missing goes from its setup
\* straight to its end: it gets no session, no session becomes connected,
\* its error counters and backoff keep their initial values and the cursors
\* are not written.
C20_ConfigurationMissing ==
  [][\A t \in Tasks :
       (SetupExit(t) /\ pc'[t] # pc[t])
       => /\ pc'[t] \in {"closing", "done"}
          /\ sftp_client'[t] = NoTask
          /\ \A c \in Tasks : connected'[c] => connected[c]
          /\ consecutive_errors'[t] = 0
          /\ reconnect_attempts'[t] = 0
          /\ backoff_time'[t] = BaseBackoff
          /\ db_last_line' = db_last_line
          /\ srv_last_line'[t] = 0]_vars

C20_Witness ==
  \E t \in Tasks :
    /\ pc[t] = "closing"
    /\ sftp_client[t] = NoTask
    /\ ~cancelled[t]
    /\ ~serverExists

\* the event is a kill or a suicide: it has both ids and no type of another
\* category
KillLike(event) ==
  /\ event.killer_id # Absent
  /\ event.victim_id # Absent
  /\ event.event_type \in {Absent, "kill"}

\* C21 as stated: a kill-like event whose killer id equals its victim id is
\* categorized as suicide, whatever the ids are.
C21_EqualIdsAreSuicide ==
  (category \notin {"none", "raised"} /\ KillLike(normalized_event)
     /\ normalized_event.killer_id = normalized_event.victim_id)
  => category = "suicide"

\* C21, amended: a kill-like event whose killer id equals its victim id is
\* categorized as suicide when the id is not empty, and as kill when it is.
C21_EqualKnownIdsAreSuicide ==
  (category \notin {"none", "raised"} /\ KillLike(normalized_event)
     /\ normalized_event.killer_id = normalized_event.victim_id)
  => category = IF normalized_event.killer_id = "" THEN "kill" ELSE "suicide"

C21_Witness ==
  /\ category = "suicide"
  /\ KillLike(normalized_event)
  /\ normalized_event.killer_id = "A"
  /\ normalized_event.victim_id = "A"

\* a parsed absolute time
IsDatetime(value) ==
  value \in {"<datetime 1>", "<datetime 2>", "<datetime 3>", UtcNow}

\* C22: normalize_event_data returns for every entry, and the timestamp of
\* the event it returns is a parsed absolute time.
C22_TimestampAlwaysParsed ==
  /\ category # "raised"
  /\ normalized_event # NoEvent => IsDatetime(normalized_event.timestamp)

\* the document stored for the guild that the call named, whatever the type
\* of the id it was stored and asked with
DocOf(guild_id) == guilds_db[guild_id[2]]

\* C23: get_server_by_id returns no server of which the id is not stored
\* under the guild asked for, wherever else it is stored, and get_all_servers
\* returns only servers stored under the guild asked for.
C23_TenantIsolation ==
  lookup # NoLookup => lookup.result \subseteq StoredUnder(DocOf(lookup.guild_id))

C23_Witness ==
  /\ lookup.fn = "get_server_by_id"
  /\ lookup.result = {}
  /\ DocOf(lookup.guild_id).guild_id = Str(lookup.guild_id)
  /\ \E n \in 1..2 :
       /\ guilds_db[n] # DocOf(lookup.guild_id)
       /\ guilds_db[n].guild_id[1] = "str"
       /\ lookup.server_id \in guilds_db[n].servers

\* C24: once every probe, read and reconnect fails, a running monitor
\* eventually spends its reconnect budget and stops after the notice to the
\* guild owner has been attempted
C24_DeadEndpointStops ==
  \A t \in Tasks :
    (<>[]dead /\ []<>(pc[t] = "probe"))
      => <>(Done(t) /\ (owner_notified[t] # "none" \/ cancelled[t]))

\* C25: the cleanup of a monitor that stop has cancelled takes out of the
\* session map, and disconnects, only the session that monitor created,
\* never the session of a monitor started for the same key afterwards
C25_CleanupClosesOwnSession ==
  \A t \in Tasks :
    (cancelled[t] /\ pc[t] = "closing") => client[t] \in {NoTask, t}

\* C26: a reconnect attempt that fails doubles the wait of the next attempt,
\* from the base of 5 up to the ceiling of 60 (5, 10, 20, 40, 60)
C26_FailedReconnectDoubles ==
  [][\A t \in Tasks :
       (pc[t] = "backoff" /\ pc'[t] = "sleep" /\ ~connected'[sftp_client[t]])
         => backoff_time'[t] = NextBackoff(backoff_time[t])]_vars

\* the states of the polling loop
InLoop(t) ==
  pc[t] \in {"poll", "pause_nofile", "probe", "read", "pause_timeout", "deliver",
             "advance", "sleep", "backoff"}

\* C27: a monitor that has not been cancelled leaves its polling loop only
\* with at least 5 consecutive errors counted and 10 reconnect attempts
\* counted; the attempts are counted one by one, by the reconnections only,
\* and from zero again after each successful line-count probe
C27_NoStopOnTransientFault ==
  [][\A t \in Tasks :
       /\ (InLoop(t) /\ ~InLoop(t)' /\ ~cancelled[t])
            => /\ pc'[t] = "notify"
               /\ consecutive_errors'[t] >= max_consecutive_errors
               /\ reconnect_attempts'[t] >= max_reconnect_attempts
       /\ ProbeSucceeds(t) => reconnect_attempts'[t] = 0
       /\ reconnect_attempts'[t] > reconnect_attempts[t]
            => /\ pc[t] = "backoff"
               /\ reconnect_attempts'[t] = reconnect_attempts[t] + 1]_vars

\* the monitor is about to stop by itself; single faults had been survived
C27_Witness ==
  \E t \in Tasks :
    /\ pc[t] = "notify" /\ ~cancelled[t]
    /\ reconnect_attempts[t] = max_reconnect_attempts
    /\ consecutive_errors[t] >= max_consecutive_errors

\* C28: when a monitor task finishes, for whatever reason, the session it
\* created and stored in the session map is disconnected and is no longer
\* in the map; for the kill-feed monitor and for the events monitor
C28_FinishedTaskLeavesNoSession ==
  [][\A t \in Tasks :
       (Live(t) /\ pc'[t] = "done")
         => (~connected'[t] /\ sftp_connections' # t)]_vars

\* the number of fingerprints in ParserCoordinator.processed_event_hashes
FingerprintCount == Cardinality(processed_event_hashes) + other_hashes

\* C29: after every call of is_duplicate_event the set of fingerprints has
\* at most 10000 members
C29_FingerprintsBounded == FingerprintCount <= PruneThreshold

\* an admitting call found the set full and compacted it
C29_Witness ==
  /\ FingerprintCount = PruneKeep
  /\ last_admitted # NoHash

\* C30: a compaction keeps the most recently admitted fingerprints; the one
\* admitted by the call that triggers the compaction is always kept
C30_CompactionKeepsTrigger ==
  [][FingerprintCount' < FingerprintCount
       => last_admitted' \in processed_event_hashes']_vars

\* C31: in the log pipeline the coordinator holds the fingerprint of an
\* event of the server only if the event has been persisted, so that an
\* event whose insert failed is handed over again by a later run
C31_SeenOnlyIfPersisted ==
  \A e \in Events :
    (/\ ServerEvent("s1", e) \in hashed
     /\ ServerEvent("s2", e) \notin hashed
     /\ generate_event_hash(ServerEvent("s1", e)) \in processed_event_hashes)
      => delivered["logproc"][e] >= 1

\* the step of t is the successful read_file of a non-empty batch
ReadsBatch(t) ==
  pc[t] = "read" /\ new_lines'[t] > 0 /\ iter'[t].error = iter[t].error

\* the step of t hands over the last event of its batch
EndsBatch(t) ==
  pc[t] = "deliver" /\ idx'[t] = Len(Batch(t)) /\ pc'[t] # "closing"

\* C32: a non-empty batch of lines without a parsed event moves the cursor
\* to last_line + len(new_lines), as a batch does whose events were all
\* processed; a batch with parsed events of which none was processed leaves
\* the cursor as it is
C32_EmptyParseAdvances ==
  [][\A t \in Tasks :
       /\ ReadsBatch(t)
            => LET nEvents == Len(ParseLines(last_line[t], new_lines'[t])) IN
               /\ nEvents = 0 => pc'[t] = "advance"
               /\ nEvents > 0 => pc'[t] = "deliver" /\ db_last_line' = db_last_line
       /\ EndsBatch(t)
            => /\ processed_events'[t] = Len(Batch(t)) => pc'[t] = "advance"
               /\ processed_events'[t] = 0
                    => pc'[t] = "sleep" /\ db_last_line' = db_last_line
       /\ (pc[t] = "advance" /\ iter'[t].advanced)
            => /\ db_last_line'[kind[t]] = last_line[t] + new_lines[t]
               /\ srv_last_line'[t] = last_line[t] + new_lines[t]]_vars

\* the cursor has been moved over a batch of unparseable lines
C32_Witness ==
  \E t \in Tasks :
    /\ iter[t].advanced
    /\ new_lines[t] > 0
    /\ Len(Batch(t)) = 0
    /\ db_last_line[kind[t]] = last_line[t] + new_lines[t]

GuildHandles(guild) ==
  {n \in DOMAIN named_tasks : monitor_tasks[named_tasks[n]].guild = guild}

\* C34: the status command lists one entry for every monitor handle of the
\* calling guild in the registry and none for a handle of another guild; the
\* entry shows the server id the monitor was started with, and Running while
\* its task is not finished, Completed afterwards
C34_StatusListsMonitors ==
  [][\A guild \in Guilds :
       KillfeedStatus(guild)
         => LET listed == reply'.running_monitors IN
            /\ DOMAIN listed = GuildHandles(guild)
            /\ \A n \in GuildHandles(guild) :
                 LET task == monitor_tasks[named_tasks[n]] IN
                 /\ << listed[n].server_id >> = task.server_id
                 /\ listed[n].status = IF task.done THEN "Completed" ELSE "Running"]_vars

\* C35: a stop for a task name that is not in the registry is answered with
\* the not-running error and changes neither the registry nor a task nor a
\* session; a stop for a registered name cancels the task of that name and
\* removes that name only: every other name keeps its task, which is untouched
C35_StopTouchesOneKey ==
  [][\A guild \in Guilds, server_id \in CommandServerIds :
       KillfeedStop(guild, server_id)
         => LET name == task_name(guild, server_id) IN
            /\ name \notin DOMAIN named_tasks
                 => /\ reply'.outcome = "not running"
                    /\ UNCHANGED << named_tasks, monitor_tasks, open_sessions >>
            /\ name \in DOMAIN named_tasks
                 => /\ reply'.outcome = "stopped"
                    /\ monitor_tasks'[named_tasks[name]] = cancel(monitor_tasks[named_tasks[name]])
                    /\ DOMAIN named_tasks' = DOMAIN named_tasks \ {name}
                    /\ \A n \in DOMAIN named_tasks \ {name} :
                         /\ named_tasks'[n] = named_tasks[n]
                         /\ monitor_tasks'[named_tasks[n]] = monitor_tasks[named_tasks[n]]
                    /\ open_sessions' = open_sessions]_vars

\* a monitor has been stopped and cancelled while another one stays registered
C35_Witness ==
  /\ reply.command = "stop"
  /\ reply.outcome = "stopped"
  /\ \E t \in DOMAIN monitor_tasks :
       /\ monitor_tasks[t].cancel_requested
       /\ monitor_tasks[t].guild = reply.guild
       /\ monitor_tasks[t].server_id = reply.server_id
  /\ \E n \in DOMAIN named_tasks : n[2] = str(reply.guild) /\ ~monitor_tasks[named_tasks[n]].cancel_requested

\* C36: a start for a server id that is not in the server list of the calling
\* guild is rejected before a task is created: no handle is added, no task
\* exists that did not before, and no session is opened
C36_UnknownServerRejected ==
  [][\A guild \in Guilds, server_id \in CommandServerIds :
       (KillfeedStart(guild, server_id) /\ server_id \notin GuildServers(guild))
         => /\ reply'.outcome = "not found"
            /\ UNCHANGED << named_tasks, monitor_tasks, open_sessions >>]_vars

\* guild 12 was refused a monitor for a server of guild 1, which has one
C36_Witness ==
  /\ reply.command = "start"
  /\ reply.outcome = "not found"
  /\ reply.guild = 12
  /\ reply.server_id \in GuildServers(1)
  /\ task_name(1, reply.server_id) \in DOMAIN named_tasks

\* the ids, as strings, of the servers in the list that get_all_servers returned
ReturnedIds == {Str(lookup.result[i].server_id) : i \in DOMAIN lookup.result}

\* C37: get_all_servers returns every server id stored for the guild once: no
\* two entries of its result have the same server_id, and an id, given as a
\* string or as a number, is in the result exactly when check_server_exists
\* is true for it, wherever the id is stored (data.servers, servers or
\* server_ids) and whether it is stored as a string or as a number
C37_AllServersAgreesWithExists ==
  lookup.fn = "get_all_servers"
    => /\ \A i, j \in DOMAIN lookup.result :
            Str(lookup.result[i].server_id) = Str(lookup.result[j].server_id) => i = j
       /\ \A sid \in StoredIds :
            check_server_exists(guilds_db, lookup.guild_id, sid) <=> Str(sid) \in ReturnedIds

\* a number stored in one layout and the same id stored as a string in
\* another are returned as one server
C37_Witness ==
  /\ lookup.fn = "get_all_servers"
  /\ Len(lookup.result) = 1
  /\ Len(guilds_db[1].data_servers) = 1
  /\ guilds_db[1].data_servers[1] = [kind |-> "dict", server_id |-> << "int", 1 >>]
  /\ guilds_db[1].server_ids = << << "str", 1 >> >>
  /\ check_server_exists(guilds_db, lookup.guild_id, << "int", 1 >>)

====
